---- MODULE Spec2Model ----
(***************************************************************************)
(* Unique-visitor counter of src/app.jsx.                                  *)
(*                                                                         *)
(* A "load" is one mounted instance of the App component (one page load    *)
(* in one tab).  Every load belongs to a browser; loads of the same        *)
(* browser share its localStorage.  All loads share the document store     *)
(* (the counter document viewCounts/profile and the documents              *)
(* uniqueVisitors/{visitorId}).                                            *)
(*                                                                         *)
(* React state is modelled by the value last passed to each setter.  An    *)
(* effect does not run inside the callback that changes its dependency:    *)
(* React flushes passive effects in a later task, so the flush is an       *)
(* action of its own (Flush) and callbacks of the previous subscription    *)
(* can run between a state change and the flush.                           *)
(***************************************************************************)
EXTENDS Integers, FiniteSets, Sequences, TLC

\* ---- bounds ----
\* page loads whose component is modelled in full
NumViews == 1
\* page loads elsewhere, of which only trackPageView is modelled: what they
\* display changes nothing in the store or in another load
NumRemotes == 2
NumBrowsers == 2
NumIds == 4
\* visitors counted before the first step
MaxOld == 1
\* calls of getUniqueVisitorId in the specification of the identity provider
MaxCalls == 3

Views == 1..NumViews
Remotes == (NumViews + 1)..(NumViews + NumRemotes)
Loads == Views \cup Remotes
Browsers == 1..NumBrowsers
\* stands for any browser whose localStorage cannot be used
NoStorage == 0
\* the identifiers Math.random()/Date.now() can produce
Ids == 1..NumIds
\* localStorage.getItem(...) === null
NoId == 0
\* snapshot of a document that does not exist
Missing == -1

VARIABLES
    counter,       \* viewCounts/profile: [exists, data]
    visitors,      \* uniqueVisitors/*: function from the existing ids to their documents
    now,           \* clock read by new Date()
    ls,            \* browser -> value of localStorage key siraw_unique_visitor_id
    returned,      \* browser -> sequence of the results of getUniqueVisitorId so far
    phase,         \* load -> "new" | "mounted" | "unmounted" | "remote"
    browserOf,     \* load -> its browser, or NoStorage
    db,            \* load -> db state is non-null
    isAuthReady,   \* load -> isAuthReady state
    authListening, \* load -> onAuthStateChanged listener registered
    viewCount,     \* load -> viewCount state
    isPulsing,     \* load -> isPulsing state
    timers,        \* load -> number of pending setTimeout callbacks
    seen,          \* load -> dependency values of the last effect flush
    sub,           \* load -> registered snapshot listeners: [captured, inbox] each
    pc,            \* load -> position of trackPageView
    visitorId,     \* load -> local visitorId of trackPageView
    visitorSnap,   \* load -> local visitorSnap.exists()
    currentCount,  \* load -> local currentCount
    cw,            \* load -> number of counter writes done by its run
    vw,            \* load -> number of visitor-document writes done by its run
    ev             \* what the last step did, if it was a snapshot callback or a write:
                   \*   snapshot:   value = what the listener was sent, shown = viewCount before,
                   \*               pulsed = setIsPulsing(true) was called
                   \*   setCount:   value = count written, shown = count stored before (0 if absent)
                   \*   setVisitor: value = id written, shown = 1 if the document existed, else 0
                   \*   snapshotError: shown = viewCount before

storeVars == <<counter, visitors, now>>
idVars == <<ls, returned>>
uiVars == <<phase, browserOf, db, isAuthReady, authListening, viewCount, isPulsing, timers, seen, sub>>
runVars == <<pc, visitorId, visitorSnap, currentCount, cw, vw>>
vars == <<storeVars, idVars, uiVars, runVars, ev>>

NoEv == [op |-> "none", t |-> 0, value |-> 0, shown |-> 0, pulsed |-> FALSE]

\* ---- documents ----
EmptyData == [f \in {} |-> 0]
NoDoc == [exists |-> FALSE, data |-> EmptyData]

\* countSnap.exists() ? countSnap.data().count : 0
ReadCount(d) == IF d.exists THEN d.data["count"] ELSE 0

\* setDoc(ref, fields, { merge: true })
MergeDoc_Replace(d, fields) == [exists |-> TRUE, data |-> fields]
MergeDoc(d, fields) ==
    [exists |-> TRUE,
     data |-> [f \in (DOMAIN d.data) \cup (DOMAIN fields) |->
                 IF f \in DOMAIN fields THEN fields[f] ELSE d.data[f]]]

\* what a listener of the counter document is sent
SnapOf(d) == IF d.exists THEN d.data["count"] ELSE Missing

\* count: currentCount + 1
NextCount_NoInc(c) == c
NextCount(c) == c + 1

\* !visitorSnap.exists()
IsNewVisitor_Always(exists) == TRUE
IsNewVisitor(exists) == ~exists

\* if (!isAuthReady || !db) return;
TrackGuard_None(ready, dbv) == TRUE
TrackGuard(ready, dbv) == ready /\ dbv

\* if (!db || !isAuthReady) return;
SnapshotGuard(dbv, ready) == dbv /\ ready

\* newCount !== viewCount && viewCount !== 0
PulseCond_NoZero(newCount, captured) == newCount # captured
PulseCond(newCount, captured) == newCount # captured /\ captured # 0

\* ---- getUniqueVisitorId ----
\* Identifiers are opaque (only equality is ever tested), so a draw of
\* Math.random()/Date.now() is taken up to renaming: an identifier in use
\* (a collision) or the least one not in use.
UsedIds ==
    ((DOMAIN visitors) \cup {ls[b] : b \in Browsers} \cup {visitorId[t] : t \in Loads}
        \cup UNION {{returned[b][i] : i \in 1..Len(returned[b])} : b \in Browsers}) \ {NoId}
FreshIds == {i \in Ids : i = 1 \/ (i - 1) \in UsedIds}

\* result of one call on storage value v when Math.random/Date.now yield fresh:
\* the returned id and the new storage value
GetIdResult_NoStore(v, fresh) ==
    IF v # NoId THEN [id |-> v, store |-> v]
    ELSE [id |-> fresh, store |-> v]
GetIdResult(v, fresh) ==
    IF v # NoId THEN [id |-> v, store |-> v]
    ELSE [id |-> fresh, store |-> fresh]


\* ---- initial state ----
VisitorDoc(time, agent) == [firstVisit |-> time, userAgent |-> agent]

\* a store in which k earlier visitors were counted; the counter document
\* then carries a field (note) this program does not know
InitStore ==
    \E k \in 0..MaxOld :
        /\ visitors = [i \in 1..k |-> VisitorDoc(0, 0)]
        /\ counter = IF k = 0 THEN NoDoc
                     ELSE [exists |-> TRUE,
                           data |-> [count |-> k, lastUpdate |-> 0, note |-> 7]]
        /\ now = 1

InitLoads ==
    /\ phase = [t \in Loads |-> "new"]
    /\ browserOf = [t \in Loads |-> NoStorage]
    /\ db = [t \in Loads |-> FALSE]
    /\ isAuthReady = [t \in Loads |-> FALSE]
    /\ authListening = [t \in Loads |-> FALSE]
    /\ viewCount = [t \in Loads |-> 0]
    /\ isPulsing = [t \in Loads |-> FALSE]
    /\ timers = [t \in Loads |-> 0]
    /\ seen = [t \in Loads |-> [ready |-> FALSE, db |-> FALSE, vc |-> 0]]
    /\ sub = [t \in Loads |-> <<>>]
    /\ pc = [t \in Loads |-> "idle"]
    /\ visitorId = [t \in Loads |-> NoId]
    /\ visitorSnap = [t \in Loads |-> FALSE]
    /\ currentCount = [t \in Loads |-> 0]
    /\ cw = [t \in Loads |-> 0]
    /\ vw = [t \in Loads |-> 0]
    /\ ev = NoEv

Init ==
    /\ InitStore
    /\ ls = [b \in Browsers |-> NoId]
    /\ returned = [b \in Browsers |-> <<>>]
    /\ InitLoads

\* ---- trackPageView ----
\* the synchronous start of trackPageView as run by its effect with the
\* rendered values ready, dbv: guard, getUniqueVisitorId, first getDoc issued
StartTrack(t, b, ready, dbv) ==
    IF ~TrackGuard(ready, dbv)
    THEN UNCHANGED <<ls, returned, pc, visitorId>>
    ELSE IF b = NoStorage
    THEN /\ pc' = [pc EXCEPT ![t] = "aborted"]
         /\ UNCHANGED <<ls, returned, visitorId>>
    ELSE \E fresh \in FreshIds :
            LET r == GetIdResult(ls[b], fresh) IN
            /\ ls' = [ls EXCEPT ![b] = r.store]
            /\ returned' = [returned EXCEPT ![b] = Append(@, r.id)]
            /\ visitorId' = [visitorId EXCEPT ![t] = r.id]
            /\ pc' = [pc EXCEPT ![t] = "visitorSnap"]

\* await getDoc(visitorsRef) resolves; if (!visitorSnap.exists()) getDoc(countDocRef)
GetVisitorSnap(t) ==
    /\ pc[t] = "visitorSnap"
    /\ LET exists == visitorId[t] \in DOMAIN visitors IN
       /\ visitorSnap' = [visitorSnap EXCEPT ![t] = exists]
       /\ pc' = [pc EXCEPT ![t] = IF IsNewVisitor(exists) THEN "countSnap" ELSE "skipped"]
    /\ ev' = NoEv
    /\ UNCHANGED <<storeVars, idVars, uiVars, visitorId, currentCount, cw, vw>>

\* await getDoc(countDocRef) resolves; currentCount computed; setDoc(countDocRef) issued
GetCountSnap(t) ==
    /\ pc[t] = "countSnap"
    /\ currentCount' = [currentCount EXCEPT ![t] = ReadCount(counter)]
    /\ pc' = [pc EXCEPT ![t] = "setCount"]
    /\ ev' = NoEv
    /\ UNCHANGED <<storeVars, idVars, uiVars, visitorId, visitorSnap, cw, vw>>

\* every registered listener of the counter document is sent the new document
Notify(subs, d) ==
    [t \in Loads |-> [i \in 1..Len(subs[t]) |->
        [subs[t][i] EXCEPT !.inbox = Append(@, SnapOf(d))]]]

\* the counter write is applied; setDoc(visitorsRef) issued
SetCount_Skip(t) ==
    /\ pc[t] = "setCount"
    /\ pc' = [pc EXCEPT ![t] = "setVisitor"]
    /\ ev' = NoEv
    /\ UNCHANGED <<storeVars, idVars, uiVars, visitorId, visitorSnap, currentCount, cw, vw>>
SetCount(t) ==
    /\ pc[t] = "setCount"
    /\ LET d == MergeDoc(counter, [count |-> NextCount(currentCount[t]), lastUpdate |-> now]) IN
       /\ counter' = d
       /\ sub' = Notify(sub, d)
    /\ now' = now + 1
    /\ cw' = [cw EXCEPT ![t] = @ + 1]
    /\ pc' = [pc EXCEPT ![t] = "setVisitor"]
    /\ ev' = [op |-> "setCount", t |-> t, value |-> NextCount(currentCount[t]),
              shown |-> ReadCount(counter), pulsed |-> FALSE]
    /\ UNCHANGED <<visitors, idVars, phase, browserOf, db, isAuthReady, authListening,
                   viewCount, isPulsing, timers, seen, visitorId, visitorSnap, currentCount, vw>>

\* the visitor write is applied (setDoc without merge replaces the document)
SetVisitor(t) ==
    /\ pc[t] = "setVisitor"
    /\ LET id == visitorId[t] IN
       visitors' = [i \in (DOMAIN visitors) \cup {id} |->
                      IF i = id THEN VisitorDoc(now, browserOf[t]) ELSE visitors[i]]
    /\ now' = now + 1
    /\ vw' = [vw EXCEPT ![t] = @ + 1]
    /\ pc' = [pc EXCEPT ![t] = "done"]
    /\ ev' = [op |-> "setVisitor", t |-> t, value |-> visitorId[t],
              shown |-> IF visitorId[t] \in DOMAIN visitors THEN 1 ELSE 0, pulsed |-> FALSE]
    /\ UNCHANGED <<counter, idVars, uiVars, visitorId, visitorSnap, currentCount, cw>>

\* the awaited store operation rejects: catch, console.error, the run ends
StoreFails_Reset(t) ==
    /\ pc[t] \in {"visitorSnap", "countSnap", "setCount", "setVisitor"}
    /\ pc' = [pc EXCEPT ![t] = "failed"]
    /\ viewCount' = [viewCount EXCEPT ![t] = 0]
    /\ ev' = NoEv
    /\ UNCHANGED <<storeVars, idVars, phase, browserOf, db, isAuthReady, authListening,
                   isPulsing, timers, seen, sub, visitorId, visitorSnap, currentCount, cw, vw>>
StoreFails(t) ==
    /\ pc[t] \in {"visitorSnap", "countSnap", "setCount", "setVisitor"}
    /\ pc' = [pc EXCEPT ![t] = "failed"]
    /\ ev' = NoEv
    /\ UNCHANGED <<storeVars, idVars, uiVars, visitorId, visitorSnap, currentCount, cw, vw>>


\* ---- the snapshot effect ----
\* return () => unsubscribeSnapshot(): the listener registered by the previous
\* run of the effect is removed
Cleanup_Leak(listeners) == listeners
Cleanup(listeners) ==
    IF listeners = <<>> THEN listeners ELSE SubSeq(listeners, 1, Len(listeners) - 1)

\* the cleanup of the previous run, then the effect body with the rendered
\* values dbv, ready, vc: guard, onSnapshot(docRef, ...) whose first snapshot
\* is the current document
Subscribe(t, dbv, ready, vc) ==
    LET kept == Cleanup(sub[t]) IN
    sub' = [sub EXCEPT ![t] =
              IF SnapshotGuard(dbv, ready)
              THEN Append(kept, [captured |-> vc, inbox |-> <<SnapOf(counter)>>])
              ELSE kept]

\* ---- component life cycle ----
\* Browsers with usable storage are alike until used, so a load picks a
\* browser in use or the least one not in use, or one without storage.
UsedBrowsers == {browserOf[t] : t \in {u \in Loads : phase[u] # "new"}}
OpenBrowsers == {NoStorage} \cup {b \in Browsers : b = 1 \/ (b - 1) \in UsedBrowsers}

\* first render and its effects: initializeApp/getFirestore/getAuth succeed
\* (ok) or throw, setDb, onAuthStateChanged; the tracking and the snapshot
\* effect run with the initial state
Mount(t, b, ok) ==
    /\ t \in Views
    /\ b \in OpenBrowsers
    /\ phase[t] = "new"
    /\ \A u \in Views : u < t => phase[u] # "new"
    /\ phase' = [phase EXCEPT ![t] = "mounted"]
    /\ browserOf' = [browserOf EXCEPT ![t] = b]
    /\ db' = [db EXCEPT ![t] = ok]
    /\ authListening' = [authListening EXCEPT ![t] = ok]
    /\ StartTrack(t, b, isAuthReady[t], db[t])
    /\ Subscribe(t, db[t], isAuthReady[t], viewCount[t])
    /\ ev' = NoEv
    /\ UNCHANGED <<storeVars, isAuthReady, viewCount, isPulsing, timers, seen,
                   visitorSnap, currentCount, cw, vw>>

\* onAuthStateChanged callback with a signed-in user: setIsAuthReady(true).
\* (With no user the callback only starts a sign-in; a sign-in that fails
\* means this action never happens.)
AuthStateChanged(t) ==
    /\ phase[t] = "mounted"
    /\ authListening[t]
    /\ ~isAuthReady[t]
    /\ isAuthReady' = [isAuthReady EXCEPT ![t] = TRUE]
    /\ ev' = NoEv
    /\ UNCHANGED <<storeVars, idVars, phase, browserOf, db, authListening, viewCount,
                   isPulsing, timers, seen, sub, runVars>>

\* the state the effects' dependency arrays are compared with
Deps(t) == [ready |-> isAuthReady[t], db |-> db[t], vc |-> viewCount[t]]

\* React flushes the effects whose dependencies changed: the tracking effect
\* on [isAuthReady, db], the snapshot effect on [db, isAuthReady, viewCount]
Flush(t) ==
    /\ phase[t] = "mounted"
    /\ Deps(t) # seen[t]
    /\ seen' = [seen EXCEPT ![t] = Deps(t)]
    /\ IF seen[t].ready # isAuthReady[t] \/ seen[t].db # db[t]
       THEN StartTrack(t, browserOf[t], isAuthReady[t], db[t])
       ELSE UNCHANGED <<ls, returned, pc, visitorId>>
    /\ Subscribe(t, db[t], isAuthReady[t], viewCount[t])
    /\ ev' = NoEv
    /\ UNCHANGED <<storeVars, phase, browserOf, db, isAuthReady, authListening,
                   viewCount, isPulsing, timers, visitorSnap, currentCount, cw, vw>>

\* onSnapshot success callback of listener i of load t
Snapshot(t, i) ==
    /\ i \in 1..Len(sub[t])
    /\ sub[t][i].inbox # <<>>
    /\ LET v == Head(sub[t][i].inbox)
           captured == sub[t][i].captured
           pulsed == v # Missing /\ PulseCond(v, captured)
       IN
       /\ sub' = [sub EXCEPT ![t][i].inbox = Tail(@)]
       /\ isPulsing' = [isPulsing EXCEPT ![t] = IF pulsed THEN TRUE ELSE @]
       /\ timers' = [timers EXCEPT ![t] = IF pulsed THEN @ + 1 ELSE @]
       /\ viewCount' = [viewCount EXCEPT ![t] = IF v # Missing THEN v ELSE 0]
       /\ ev' = [op |-> "snapshot", t |-> t, value |-> v, shown |-> viewCount[t], pulsed |-> pulsed]
    /\ UNCHANGED <<storeVars, idVars, phase, browserOf, db, isAuthReady, authListening,
                   seen, runVars>>

\* onSnapshot error callback of listener i of load t: console.error only.
\* (Firestore sends no further event to a listener it has reported an error to.)
SnapshotError_Reset(t, i) ==
    /\ i \in 1..Len(sub[t])
    /\ sub' = [sub EXCEPT ![t] = SubSeq(@, 1, i - 1) \o SubSeq(@, i + 1, Len(@))]
    /\ viewCount' = [viewCount EXCEPT ![t] = 0]
    /\ ev' = [op |-> "snapshotError", t |-> t, value |-> 0, shown |-> viewCount[t], pulsed |-> FALSE]
    /\ UNCHANGED <<storeVars, idVars, phase, browserOf, db, isAuthReady, authListening,
                   isPulsing, timers, seen, runVars>>
SnapshotError(t, i) ==
    /\ i \in 1..Len(sub[t])
    /\ sub' = [sub EXCEPT ![t] = SubSeq(@, 1, i - 1) \o SubSeq(@, i + 1, Len(@))]
    /\ ev' = [op |-> "snapshotError", t |-> t, value |-> 0, shown |-> viewCount[t], pulsed |-> FALSE]
    /\ UNCHANGED <<storeVars, idVars, phase, browserOf, db, isAuthReady, authListening,
                   viewCount, isPulsing, timers, seen, runVars>>

\* setTimeout(() => setIsPulsing(false), 500) fires
TimerFires(t) ==
    /\ timers[t] > 0
    /\ timers' = [timers EXCEPT ![t] = @ - 1]
    /\ isPulsing' = [isPulsing EXCEPT ![t] = FALSE]
    /\ ev' = NoEv
    /\ UNCHANGED <<storeVars, idVars, phase, browserOf, db, isAuthReady, authListening,
                   viewCount, seen, sub, runVars>>

\* the component is unmounted: the cleanups of the auth effect and of the
\* snapshot effect run; a trackPageView in progress goes on
Unmount(t) ==
    /\ phase[t] = "mounted"
    /\ phase' = [phase EXCEPT ![t] = "unmounted"]
    /\ authListening' = [authListening EXCEPT ![t] = FALSE]
    /\ sub' = [sub EXCEPT ![t] = Cleanup(@)]
    /\ ev' = NoEv
    /\ UNCHANGED <<storeVars, idVars, browserOf, db, isAuthReady, viewCount, isPulsing,
                   timers, seen, runVars>>

\* a page load elsewhere reaches the tracking effect with its session ready
VisitIn(S, t, b) ==
    /\ t \in S
    /\ b \in OpenBrowsers
    /\ phase[t] = "new"
    /\ \A u \in S : u < t => phase[u] # "new"
    /\ phase' = [phase EXCEPT ![t] = "remote"]
    /\ browserOf' = [browserOf EXCEPT ![t] = b]
    /\ StartTrack(t, b, TRUE, TRUE)
    /\ ev' = NoEv
    /\ UNCHANGED <<storeVars, db, isAuthReady, authListening, viewCount,
                   isPulsing, timers, seen, sub, visitorSnap, currentCount, cw, vw>>

Visit(t, b) == VisitIn(Remotes, t, b)

\* one call of getUniqueVisitorId in browser b, outside any page load
CallGetUniqueVisitorId(b) ==
    /\ Len(returned[b]) < MaxCalls
    /\ \E fresh \in FreshIds :
          LET r == GetIdResult(ls[b], fresh) IN
          /\ ls' = [ls EXCEPT ![b] = r.store]
          /\ returned' = [returned EXCEPT ![b] = Append(@, r.id)]
    /\ UNCHANGED <<storeVars, uiVars, runVars, ev>>

\* no trackPageView is between its first read and its end
NoRunInProgress ==
    \A t \in Loads : pc[t] \notin {"visitorSnap", "countSnap", "setCount", "setVisitor"}

\* ---- specifications ----
FirstRemote == NumViews + 1

Next ==
    \/ \E t \in Views, b \in OpenBrowsers, ok \in BOOLEAN : Mount(t, b, ok)
    \/ \E b \in OpenBrowsers : Visit(FirstRemote, b)
    \/ \E t \in Views : AuthStateChanged(t)
    \/ \E t \in Views : Flush(t)
    \/ \E t \in Views, i \in 1..2 : Snapshot(t, i)
    \/ \E t \in Views, i \in 1..2 : SnapshotError(t, i)
    \/ \E t \in Views : TimerFires(t)
    \/ \E t \in Views : Unmount(t)
    \/ \E t \in Loads : GetVisitorSnap(t)
    \/ \E t \in Loads : GetCountSnap(t)
    \/ \E t \in Loads : SetCount(t)
    \/ \E t \in Loads : SetVisitor(t)
    \/ \E t \in Loads : StoreFails(t)

Spec == Init /\ [][Next]_vars

\* the components alone: no other visitor, no store failure
NextView ==
    \/ \E t \in Views, b \in OpenBrowsers, ok \in BOOLEAN : Mount(t, b, ok)
    \/ \E t \in Views : AuthStateChanged(t)
    \/ \E t \in Views : Flush(t)
    \/ \E t \in Views, i \in 1..2 : Snapshot(t, i)
    \/ \E t \in Views : TimerFires(t)
    \/ \E t \in Views : Unmount(t)
    \/ \E t \in Views : GetVisitorSnap(t)
    \/ \E t \in Views : GetCountSnap(t)
    \/ \E t \in Views : SetCount(t)
    \/ \E t \in Views : SetVisitor(t)

SpecView == Init /\ [][NextView]_vars

\* the components alone, store operations and listeners may fail
NextViewErr ==
    \/ \E t \in Views, b \in OpenBrowsers, ok \in BOOLEAN : Mount(t, b, ok)
    \/ \E t \in Views : AuthStateChanged(t)
    \/ \E t \in Views : Flush(t)
    \/ \E t \in Views, i \in 1..2 : Snapshot(t, i)
    \/ \E t \in Views, i \in 1..2 : SnapshotError(t, i)
    \/ \E t \in Views : TimerFires(t)
    \/ \E t \in Views : Unmount(t)
    \/ \E t \in Views : GetVisitorSnap(t)
    \/ \E t \in Views : GetCountSnap(t)
    \/ \E t \in Views : SetCount(t)
    \/ \E t \in Views : SetVisitor(t)
    \/ \E t \in Views : StoreFails(t)

SpecViewErr == Init /\ [][NextViewErr]_vars

\* the visitors alone, their runs interleaved, store operations may fail
NextTrack ==
    \/ \E t \in Remotes, b \in OpenBrowsers : Visit(t, b)
    \/ \E t \in Remotes : GetVisitorSnap(t)
    \/ \E t \in Remotes : GetCountSnap(t)
    \/ \E t \in Remotes : SetCount(t)
    \/ \E t \in Remotes : SetVisitor(t)
    \/ \E t \in Remotes : StoreFails(t)

SpecTrack == Init /\ [][NextTrack]_vars

\* the visitors alone, one run at a time, store operations may fail
NextSeq ==
    \/ \E t \in Remotes, b \in OpenBrowsers : NoRunInProgress /\ Visit(t, b)
    \/ \E t \in Remotes : GetVisitorSnap(t)
    \/ \E t \in Remotes : GetCountSnap(t)
    \/ \E t \in Remotes : SetCount(t)
    \/ \E t \in Remotes : SetVisitor(t)
    \/ \E t \in Remotes : StoreFails(t)

SpecSeq == Init /\ [][NextSeq]_vars

\* every page load a visitor's run, the runs interleaved, no failures
NextRace ==
    \/ \E t \in Loads, b \in OpenBrowsers : VisitIn(Loads, t, b)
    \/ \E t \in Loads : GetVisitorSnap(t)
    \/ \E t \in Loads : GetCountSnap(t)
    \/ \E t \in Loads : SetCount(t)
    \/ \E t \in Loads : SetVisitor(t)

SpecRace == Init /\ [][NextRace]_vars

\* the identity provider alone, on any content of the storage key
InitId ==
    /\ InitStore
    /\ ls \in [Browsers -> {NoId} \cup Ids]
    /\ returned = [b \in Browsers |-> <<>>]
    /\ InitLoads

NextId == \E b \in Browsers : CallGetUniqueVisitorId(b)

SpecId == InitId /\ [][NextId]_vars

\* ---- claims ----
Started(t) == pc[t] \notin {"idle", "aborted"}

\* C1: a run that read its VisitorRecord as absent, met no failure and did not
\* overlap another run made exactly one counter write, of the stored count
\* plus 1 (1 when the document was absent), and exactly one creation of its
\* VisitorRecord.
C1_OneIncrementOneRecord ==
    /\ \A t \in Loads :
         (pc[t] = "done" /\ ~visitorSnap[t]) =>
            /\ cw[t] = 1
            /\ vw[t] = 1
            /\ visitorId[t] \in DOMAIN visitors
    /\ ev.op = "setCount" =>
         /\ ev.value = ev.shown + 1
         /\ counter.exists
         /\ counter.data["count"] = ev.value
    /\ ev.op = "setVisitor" => ev.shown = 0

C1_Witness ==
    \E t \in Loads :
        /\ pc[t] = "done" /\ ~visitorSnap[t]
        /\ cw[t] = 1 /\ vw[t] = 1
        /\ ev.op = "setVisitor" /\ ev.t = t

\* C2: a run that read its VisitorRecord as existing makes no write at all:
\* it ends there, with no counter write and no visitor write.
C2_ExistingVisitorNoWrite ==
    \A t \in Loads :
        visitorSnap[t] => (pc[t] = "skipped" /\ cw[t] = 0 /\ vw[t] = 0)

C2_Witness ==
    \E t \in Loads : visitorSnap[t] /\ pc[t] = "skipped" /\ counter.exists

\* C3 (as claimed): whenever no run is in progress, no run has failed and the
\* runs had pairwise distinct visitor ids, the count equals the number of
\* VisitorRecords.
C3_Original ==
    ( /\ NoRunInProgress
      /\ \A t \in Loads : pc[t] \notin {"failed", "aborted"}
      /\ \A t, u \in Loads : (t # u /\ Started(t) /\ Started(u)) => visitorId[t] # visitorId[u] )
    => ReadCount(counter) = Cardinality(DOMAIN visitors)

\* C4: every call of getUniqueVisitorId on the same storage returns what the
\* first call returned.
C4_StableVisitorId ==
    \A b \in Browsers : \A i \in 1..Len(returned[b]) : returned[b][i] = returned[b][1]

C4_Witness ==
    \E b \in Browsers : Len(returned[b]) >= 3 /\ ls[b] = returned[b][1]

\* C5: as long as the session-ready flag is false or the store handle is null,
\* the load has not started trackPageView, has written nothing, has no
\* snapshot listener, and displays 0.
C5_NoAccessBeforeReady ==
    \A t \in Views :
        ~(isAuthReady[t] /\ db[t]) =>
            /\ pc[t] = "idle"
            /\ cw[t] = 0 /\ vw[t] = 0
            /\ sub[t] = <<>>
            /\ viewCount[t] = 0

C5_Witness ==
    \E t \in Views : isAuthReady[t] /\ db[t] /\ pc[t] = "done" /\ viewCount[t] > 0

\* C6: every step keeps each field of the counter document other than count
\* and lastUpdate, with its value.
C6_MergeKeepsOtherFields ==
    [][\A f \in (DOMAIN counter.data) \ {"count", "lastUpdate"} :
          f \in DOMAIN counter'.data /\ counter'.data[f] = counter.data[f]]_vars

C6_Witness ==
    /\ ev.op = "setCount"
    /\ "note" \in DOMAIN counter.data
    /\ counter.data["lastUpdate"] > 0

\* C7 (as claimed, its safety half): a snapshot whose count differs from the
\* displayed count, the displayed count being non-zero, sets the pulse flag
\* and makes the displayed count the notified one.
C7_Original ==
    (ev.op = "snapshot" /\ ev.value # Missing /\ ev.value # ev.shown /\ ev.shown # 0)
    => (ev.pulsed /\ isPulsing[ev.t] /\ viewCount[ev.t] = ev.value)

\* C8 (as claimed): a snapshot whose count equals the displayed count does not
\* set the pulse flag.
C8_Original ==
    (ev.op = "snapshot" /\ ev.value = ev.shown) => ~ev.pulsed

\* C9: a snapshot received while the displayed count is 0 does not set the
\* pulse flag.
C9_NoPulseFromZero ==
    (ev.op = "snapshot" /\ ev.shown = 0) => ~ev.pulsed

C9_Witness ==
    ev.op = "snapshot" /\ ev.shown = 0 /\ ev.value > 0 /\ viewCount[ev.t] = ev.value

\* C10: once a component is unmounted it has no snapshot listener, and no
\* later step changes its displayed count or raises its pulse flag.
C10_UnmountEndsSubscription ==
    [][\A t \in Views :
          /\ phase'[t] = "unmounted" => sub'[t] = <<>>
          /\ phase[t] = "unmounted" =>
                (viewCount'[t] = viewCount[t] /\ (isPulsing'[t] => isPulsing[t]))]_vars

C10_Witness ==
    \E t \in Views :
        /\ phase[t] = "unmounted"
        /\ seen[t].ready
        /\ ev.op = "setCount"
        /\ viewCount[t] # ev.value

\* C11: the step in which a store operation of trackPageView fails changes
\* nothing in the store, in the displayed count, in the pulse flag, in the
\* listeners or in the component's life cycle; after it the run stays ended
\* and writes nothing.
C11_FailureIsContained ==
    [][\A t \in Loads :
          /\ (pc[t] # "failed" /\ pc'[t] = "failed") =>
                /\ counter' = counter /\ visitors' = visitors
                /\ viewCount' = viewCount /\ isPulsing' = isPulsing /\ timers' = timers
                /\ sub' = sub /\ phase' = phase
          /\ pc[t] = "failed" =>
                (pc'[t] = "failed" /\ cw'[t] = cw[t] /\ vw'[t] = vw[t])]_vars

\* after the run failed (its counter write done, its visitor write failed)
\* the listener still delivers the new count
C11_Witness ==
    /\ ev.op = "snapshot"
    /\ pc[ev.t] = "failed" /\ cw[ev.t] = 1 /\ vw[ev.t] = 0
    /\ viewCount[ev.t] = ReadCount(counter)
    /\ ev.shown # ev.value

\* the ids that have run the protocol, now or before the first step
RanIds == ((DOMAIN visitors) \cup {visitorId[t] : t \in Loads}) \ {NoId}

\* C12 (as claimed): with runs one at a time and store failures, the count is
\* never greater than the number of distinct visitor ids that have run.
C12_Original ==
    ReadCount(counter) <= Cardinality(RanIds)

\* C13 (as claimed): a run in a browser whose storage is unavailable is not
\* aborted: it gets an id and goes on to its store lookup.
C13_Original ==
    \A t \in Loads : pc[t] # "aborted"

\* C14 (as claimed): a VisitorRecord is written only when it does not exist.
C14_Original ==
    ev.op = "setVisitor" => ev.shown = 0

\* C15: the step of a subscription error callback leaves the displayed count
\* and the pulse flag (and its pending timers) as they were.
C15_ErrorKeepsDisplay ==
    [][\A t \in Views :
          (ev'.op = "snapshotError" /\ ev'.t = t) =>
             (viewCount'[t] = viewCount[t] /\ isPulsing'[t] = isPulsing[t] /\ timers'[t] = timers[t])]_vars

C15_Witness ==
    ev.op = "snapshotError" /\ viewCount[ev.t] > 0 /\ ev.shown = viewCount[ev.t]

\* the visitors counted before the first step (their records carry time 0)
OldVisitors == {i \in DOMAIN visitors : visitors[i].firstVisit = 0}

\* runs that made a counter write
Writers == {t \in Loads : cw[t] > 0}

\* C16: two runs with the same visitor id that both read the VisitorRecord as
\* absent and both completed have each written the counter once and left one
\* record for that id; the count has grown by at least 1 and by at most the
\* number of runs that wrote the counter (2 when these two are the only ones),
\* and the witness is the state in which it has grown by 2.
C16_BothRunsCount ==
    \A t, u \in Loads :
        ( /\ t # u
          /\ pc[t] = "done" /\ pc[u] = "done"
          /\ ~visitorSnap[t] /\ ~visitorSnap[u]
          /\ visitorId[t] = visitorId[u] )
        => /\ cw[t] = 1 /\ cw[u] = 1
           /\ visitorId[t] \in DOMAIN visitors
           /\ ReadCount(counter) - Cardinality(OldVisitors) \in 1..Cardinality(Writers)

C16_Witness ==
    \E t, u \in Loads :
        /\ t # u
        /\ pc[t] = "done" /\ pc[u] = "done"
        /\ ~visitorSnap[t] /\ ~visitorSnap[u]
        /\ visitorId[t] = visitorId[u]
        /\ Writers = {t, u}
        /\ ReadCount(counter) = Cardinality(OldVisitors) + 2
        /\ Cardinality(DOMAIN visitors) = Cardinality(OldVisitors) + 1

\* C17: if any VisitorRecord exists, the counter document exists and its count
\* is at least 1.
C17_RecordImpliesCounter ==
    DOMAIN visitors # {} => (counter.exists /\ ReadCount(counter) >= 1)

\* a record created by a run in a store that had neither records nor counter
C17_Witness ==
    /\ OldVisitors = {}
    /\ DOMAIN visitors # {}
    /\ ev.op = "setVisitor"
    /\ \E t \in Loads : pc[t] = "failed"

\* C18 (as claimed): no counter write stores a count lower than the count
\* stored before it.
C18_Original ==
    ev.op = "setCount" => ev.value >= ev.shown

\* C19: a component has at most one counter listener registered.
C19_OneSubscription ==
    \A t \in Views : Len(sub[t]) <= 1

\* the listener of a re-subscription caused by a change of the displayed count
C19_Witness ==
    \E t \in Views :
        /\ Len(sub[t]) = 1
        /\ sub[t][1].captured > 0
        /\ sub[t][1].captured = viewCount[t]

TypeOK ==
    /\ counter.exists \in BOOLEAN
    /\ DOMAIN visitors \subseteq Ids
    /\ \A t \in Loads : Len(sub[t]) <= 1

====
